---------------------------- MODULE Spec2Model ----------------------------
(***************************************************************************)
(* A model of lombscargle() of src/lib/lombscargle.rs, the generalized     *)
(* Lomb-Scargle periodogram.                                               *)
(*                                                                         *)
(* Numbers.  An f64 is modelled as a pair <<n, d>>: with d > 0 it is the   *)
(* rational n/d in lowest terms, <<1, 0>> and <<-1, 0>> are +Infinity and  *)
(* -Infinity and <<0, 0>> is NaN.  The four arithmetic operators follow    *)
(* IEEE 754 for the non-finite cases (x/0, Inf-Inf, 0*Inf, NaN in, NaN     *)
(* out); finite results are exact, so rounding and overflow are not        *)
(* modelled, and a zero has no sign (x/0 takes the sign of x).             *)
(*                                                                         *)
(* Angles.  freq_start and freq_step hold the frequency in units of 1/4    *)
(* cycle per unit of time and time holds integers, so that every angle     *)
(* omega*t is a whole number of quarter turns (omega = 2*pi*freq is then   *)
(* freq quarter turns per unit of time) and sin and cos are exact.         *)
(***************************************************************************)
EXTENDS Integers, Sequences, FiniteSets

\* ------------------------------------------------------------ bounds
MaxLen == 2        \* longest time array of Spec
MaxFreq == 3       \* largest num_freq of Spec
FitLen == 4        \* longest time array of SpecFit
LongExtra == 2     \* SpecLong runs ResyncPeriod + LongExtra bins

\* The period of the direct sin/cos recompute, `j % 5000 == 0`.
ResyncPeriod == 5000

\* ------------------------------------------------------------ f64
Abs(k) == IF k < 0 THEN -k ELSE k
Sgn(k) == IF k < 0 THEN -1 ELSE IF k > 0 THEN 1 ELSE 0

RECURSIVE GCD(_, _)
GCD(a, b) == IF b = 0 THEN a ELSE GCD(b, a % b)

\* The rational n/d (d > 0) in lowest terms.
Norm(n, d) ==
    LET g == GCD(Abs(n), d)
    IN  <<n \div g, d \div g>>

NaN == <<0, 0>>
Inf(s) == <<s, 0>>
Zero == <<0, 1>>
One == <<1, 1>>
Num(k) == <<k, 1>>

IsNaN(x) == x = NaN
IsInf(x) == x[2] = 0 /\ x[1] # 0
IsFinite(x) == x[2] > 0
IsZero(x) == x = Zero
Pos(x) == x[1] > 0
Neg(x) == x[1] < 0

FNeg(x) == <<-x[1], x[2]>>

FAdd(x, y) ==
    IF IsNaN(x) \/ IsNaN(y) THEN NaN
    ELSE IF IsInf(x) /\ IsInf(y) THEN (IF x = y THEN x ELSE NaN)
    ELSE IF IsInf(x) THEN x
    ELSE IF IsInf(y) THEN y
    ELSE Norm(x[1] * y[2] + y[1] * x[2], x[2] * y[2])

FSub(x, y) == FAdd(x, FNeg(y))

FMul(x, y) ==
    IF IsNaN(x) \/ IsNaN(y) THEN NaN
    ELSE IF IsInf(x) \/ IsInf(y)
         THEN (IF IsZero(x) \/ IsZero(y) THEN NaN ELSE Inf(Sgn(x[1]) * Sgn(y[1])))
    ELSE Norm(x[1] * y[1], x[2] * y[2])

FDiv(x, y) ==
    IF IsNaN(x) \/ IsNaN(y) THEN NaN
    ELSE IF IsInf(x) THEN (IF IsInf(y) THEN NaN
                           ELSE Inf(Sgn(x[1]) * (IF Neg(y) THEN -1 ELSE 1)))
    ELSE IF IsInf(y) THEN Zero
    ELSE IF IsZero(y) THEN (IF IsZero(x) THEN NaN ELSE Inf(Sgn(x[1])))
    ELSE Norm(x[1] * y[2] * Sgn(y[1]), x[2] * Abs(y[1]))

\* sin and cos of an angle of a quarter turns.
Sin(a) == Num(CASE a % 4 = 0 -> 0 [] a % 4 = 1 -> 1 [] a % 4 = 2 -> 0 [] OTHER -> -1)
Cos(a) == Num(CASE a % 4 = 0 -> 1 [] a % 4 = 1 -> 0 [] a % 4 = 2 -> -1 [] OTHER -> 0)

\* ------------------------------------------------------------ state
VARIABLES
    time, signal, weights, freq_start, freq_step, num_freq, with_constant,
    pc, mean, y, n, j,
    sum_y, sum_yy,
    sum_ysinx, sum_ycosx, sum_sinx, sum_cosx, sum_sinxsinx, sum_sinxcosx,
    sindx, cosdx, sinx, cosx,
    spectrum, amplitude_cos, amplitude_sin, constant,
    rot, prev

args == <<time, signal, weights, freq_start, freq_step, with_constant>>
sums == <<sum_ysinx, sum_ycosx, sum_sinx, sum_cosx, sum_sinxsinx, sum_sinxcosx>>
trig == <<sindx, cosdx, sinx, cosx>>
outs == <<spectrum, amplitude_cos, amplitude_sin, constant>>
vars == <<args, num_freq, pc, mean, y, n, j, sum_y, sum_yy, sums, trig, outs, rot, prev>>

\* A local that has not been assigned yet, an output that was never returned.
Undef == <<>>

\* omega = 2*pi*freq, in quarter turns per unit of time.
omega_start == freq_start
omega_step == freq_step

\* ------------------------------------------------------------ the routine
\* The assertions with freq_step = 0 let through.
AssertsHold_ZeroStep ==
    /\ Len(time) > 0
    /\ Len(signal) = Len(time)
    /\ freq_step >= 0
    /\ num_freq >= 1

\* The four assertions that open the routine.
AssertsHold ==
    /\ Len(time) > 0
    /\ Len(signal) = Len(time)
    /\ freq_step > 0
    /\ num_freq >= 1

Min(a, b) == IF a < b THEN a ELSE b

\* signal.iter().zip(weights.iter()).map(|(x,y)| x*y).sum(): zip stops at the
\* shorter of the two.
RECURSIVE ZipSum(_, _, _)
ZipSum(xs, ws, k) ==
    IF k = 0 THEN Zero ELSE FAdd(ZipSum(xs, ws, k - 1), FMul(xs[k], ws[k]))

WeightedMean(xs, ws) == ZipSum(xs, ws, Min(Len(xs), Len(ws)))

\* vec![0.0; num_freq]
Zeros(k) == [i \in 1..k |-> Zero]

\* The recompute one bin late.
IsResync_OneLate(jj) == jj % ResyncPeriod = 1

\* The direct recompute of sin/cos or the rotation: `j % 5000 == 0`.
IsResync(jj) == jj % ResyncPeriod = 0

\* <<sinx, cosx>> recomputed for the next bin, jj + 1.
Resync(t, jj) ==
    << Sin(t * (omega_start + (jj + 1) * omega_step)),
       Cos(t * (omega_start + (jj + 1) * omega_step)) >>

\* The rotation with the sign of the cosine's second term slipped.
Rotate_SignSlip(s, c, sd, cd) ==
    << FAdd(FMul(s, cd), FMul(c, sd)),
       FAdd(FMul(c, cd), FMul(s, sd)) >>

\* <<sinx, cosx>> rotated by the angle whose sine and cosine are sd and cd.
Rotate(s, c, sd, cd) ==
    << FAdd(FMul(s, cd), FMul(c, sd)),
       FSub(FMul(c, cd), FMul(s, sd)) >>

\* The term added to bin jj and to every bin after it.
Bump_Onward(acc, jj, term) ==
    [k \in DOMAIN acc |-> IF k >= jj + 1 THEN FAdd(acc[k], term) ELSE acc[k]]

\* acc[jj] += term, on a vector indexed from 0.
Bump(acc, jj, term) == [acc EXCEPT ![jj + 1] = FAdd(@, term)]

\* yy and, for bin jj (from 0), the terms of the second loop.
YY == FSub(sum_yy, FMul(sum_y, sum_y))
YS(jj) == FSub(sum_ysinx[jj + 1], FMul(sum_y, sum_sinx[jj + 1]))
YC(jj) == FSub(sum_ycosx[jj + 1], FMul(sum_y, sum_cosx[jj + 1]))

SS(jj) ==
    IF with_constant
    THEN FSub(sum_sinxsinx[jj + 1], FMul(sum_sinx[jj + 1], sum_sinx[jj + 1]))
    ELSE sum_sinxsinx[jj + 1]

CC(jj) ==
    IF with_constant
    THEN FSub(FSub(One, sum_sinxsinx[jj + 1]), FMul(sum_cosx[jj + 1], sum_cosx[jj + 1]))
    ELSE FSub(One, sum_sinxsinx[jj + 1])

CS(jj) ==
    IF with_constant
    THEN FSub(sum_sinxcosx[jj + 1], FMul(sum_cosx[jj + 1], sum_sinx[jj + 1]))
    ELSE sum_sinxcosx[jj + 1]

\* d = cc*ss - cs*cs
D(jj) == FSub(FMul(CC(jj), SS(jj)), FMul(CS(jj), CS(jj)))

\* The power with the sign of cc*ys*ys slipped.
Power_SignSlip(jj) ==
    FDiv(FSub(FSub(FMul(FMul(SS(jj), YC(jj)), YC(jj)),
                   FMul(FMul(CC(jj), YS(jj)), YS(jj))),
              FMul(FMul(FMul(Num(2), CS(jj)), YC(jj)), YS(jj))),
         FMul(YY, D(jj)))

\* (ss*yc*yc + cc*ys*ys - 2.0*cs*yc*ys) / (yy*d)
Power(jj) ==
    FDiv(FSub(FAdd(FMul(FMul(SS(jj), YC(jj)), YC(jj)),
                   FMul(FMul(CC(jj), YS(jj)), YS(jj))),
              FMul(FMul(FMul(Num(2), CS(jj)), YC(jj)), YS(jj))),
         FMul(YY, D(jj)))

\* The cosine amplitude over the denominator of the power, yy*d.
AmplCos_OverYY(jj) ==
    FDiv(FSub(FMul(YC(jj), SS(jj)), FMul(YS(jj), CS(jj))), FMul(YY, D(jj)))

\* (yc*ss - ys*cs) / d
AmplCos(jj) == FDiv(FSub(FMul(YC(jj), SS(jj)), FMul(YS(jj), CS(jj))), D(jj))

\* The sine amplitude with ss in the place of cc.
AmplSin_WithSS(jj) == FDiv(FSub(FMul(YS(jj), SS(jj)), FMul(YC(jj), CS(jj))), D(jj))

\* (ys*cc - yc*cs) / d
AmplSin(jj) == FDiv(FSub(FMul(YS(jj), CC(jj)), FMul(YC(jj), CS(jj))), D(jj))

\* The fitted constant pushed in both branches.
Constant_AlwaysFitted(jj) ==
    FAdd(FSub(FSub(sum_y, FMul(AmplCos(jj), sum_cosx[jj + 1])),
              FMul(AmplSin(jj), sum_sinx[jj + 1])),
         mean)

\* The fitted constant, or the weighted mean when none is fitted.
Constant(jj) ==
    IF with_constant
    THEN FAdd(FSub(FSub(sum_y, FMul(AmplCos(jj), sum_cosx[jj + 1])),
                   FMul(AmplSin(jj), sum_sinx[jj + 1])),
              mean)
    ELSE mean

\* An assertion fails: the call panics before anything is computed.
AssertFail ==
    /\ pc = "start"
    /\ ~AssertsHold
    /\ pc' = "panic"
    /\ UNCHANGED <<args, num_freq, mean, y, n, j, sum_y, sum_yy, sums, trig, outs, rot, prev>>

AssertPass ==
    /\ pc = "start"
    /\ AssertsHold
    /\ pc' = "center"
    /\ UNCHANGED <<args, num_freq, mean, y, n, j, sum_y, sum_yy, sums, trig, outs, rot, prev>>

\* The weighted mean, the centred signal and the zeroed accumulators.
Center ==
    /\ pc = "center"
    /\ mean' = WeightedMean(signal, weights)
    /\ y' = [i \in 1..Len(signal) |-> FSub(signal[i], mean')]
    /\ sum_y' = Zero
    /\ sum_yy' = Zero
    /\ sum_ysinx' = Zeros(num_freq)
    /\ sum_ycosx' = Zeros(num_freq)
    /\ sum_sinx' = Zeros(num_freq)
    /\ sum_cosx' = Zeros(num_freq)
    /\ sum_sinxsinx' = Zeros(num_freq)
    /\ sum_sinxcosx' = Zeros(num_freq)
    /\ n' = 0
    /\ pc' = "loop_n"
    /\ UNCHANGED <<args, num_freq, j, trig, outs, rot, prev>>

\* The head of the sample loop's body: the two global sums and the state of
\* the recurrence for sample n.
SampleBegin ==
    /\ pc = "loop_n"
    /\ n < Len(time)
    /\ n < Len(weights)
    /\ sum_y' = FAdd(sum_y, FMul(weights[n + 1], y[n + 1]))
    /\ sum_yy' = FAdd(sum_yy, FMul(FMul(weights[n + 1], y[n + 1]), y[n + 1]))
    /\ sindx' = Sin(omega_step * time[n + 1])
    /\ cosdx' = Cos(omega_step * time[n + 1])
    /\ sinx' = Sin(omega_start * time[n + 1])
    /\ cosx' = Cos(omega_start * time[n + 1])
    /\ rot' = 0
    /\ j' = 0
    /\ pc' = "loop_j"
    /\ UNCHANGED <<args, num_freq, mean, y, n, sums, outs, prev>>

\* weights[n] with n past the end of weights: the index panics.
IndexPanic ==
    /\ pc = "loop_n"
    /\ n < Len(time)
    /\ n >= Len(weights)
    /\ pc' = "panic"
    /\ UNCHANGED <<args, num_freq, mean, y, n, j, sum_y, sum_yy, sums, trig, outs, rot, prev>>

\* One pass of the bin loop's body: bin j's six sums, then the advance of
\* <<sinx, cosx>> to bin j + 1.
BinStep ==
    /\ pc = "loop_j"
    /\ j < num_freq
    /\ LET w  == weights[n + 1]
           wy == FMul(w, y[n + 1])
           nx == IF IsResync(j) THEN Resync(time[n + 1], j)
                                ELSE Rotate(sinx, cosx, sindx, cosdx)
       IN  /\ sum_ysinx' = Bump(sum_ysinx, j, FMul(wy, sinx))
           /\ sum_ycosx' = Bump(sum_ycosx, j, FMul(wy, cosx))
           /\ sum_sinx' = Bump(sum_sinx, j, FMul(w, sinx))
           /\ sum_cosx' = Bump(sum_cosx, j, FMul(w, cosx))
           /\ sum_sinxsinx' = Bump(sum_sinxsinx, j, FMul(FMul(w, sinx), sinx))
           /\ sum_sinxcosx' = Bump(sum_sinxcosx, j, FMul(FMul(w, sinx), cosx))
           /\ sinx' = nx[1]
           /\ cosx' = nx[2]
    /\ rot' = IF IsResync(j) THEN 0 ELSE rot + 1
    /\ j' = j + 1
    /\ IF j + 1 < num_freq
       THEN pc' = "loop_j" /\ n' = n
       ELSE pc' = "loop_n" /\ n' = n + 1
    /\ UNCHANGED <<args, num_freq, mean, y, sum_y, sum_yy, sindx, cosdx, outs, prev>>

\* The second loop and the return of the four vectors.
Solve ==
    /\ pc = "loop_n"
    /\ n = Len(time)
    /\ spectrum' = [k \in 1..num_freq |-> Power(k - 1)]
    /\ amplitude_cos' = [k \in 1..num_freq |-> AmplCos(k - 1)]
    /\ amplitude_sin' = [k \in 1..num_freq |-> AmplSin(k - 1)]
    /\ constant' = [k \in 1..num_freq |-> Constant(k - 1)]
    /\ pc' = "done"
    /\ UNCHANGED <<args, num_freq, mean, y, n, j, sum_y, sum_yy, sums, trig, rot, prev>>

\* A second call with the same arguments but another num_freq; prev keeps
\* what the first call returned.
Recall ==
    /\ pc = "done"
    /\ prev = Undef
    /\ prev' = outs
    /\ \E m \in 1..MaxFreq : m # num_freq /\ num_freq' = m
    /\ pc' = "start"
    /\ mean' = Undef /\ y' = Undef
    /\ n' = 0 /\ j' = 0
    /\ sum_y' = Undef /\ sum_yy' = Undef
    /\ sum_ysinx' = Undef /\ sum_ycosx' = Undef /\ sum_sinx' = Undef
    /\ sum_cosx' = Undef /\ sum_sinxsinx' = Undef /\ sum_sinxcosx' = Undef
    /\ sindx' = Undef /\ cosdx' = Undef /\ sinx' = Undef /\ cosx' = Undef
    /\ spectrum' = Undef /\ amplitude_cos' = Undef
    /\ amplitude_sin' = Undef /\ constant' = Undef
    /\ rot' = 0
    /\ UNCHANGED args

\* ------------------------------------------------------------ inputs
\* The locals before the call has run.
Fresh ==
    /\ pc = "start"
    /\ mean = Undef /\ y = Undef
    /\ n = 0 /\ j = 0
    /\ sum_y = Undef /\ sum_yy = Undef
    /\ sum_ysinx = Undef /\ sum_ycosx = Undef /\ sum_sinx = Undef
    /\ sum_cosx = Undef /\ sum_sinxsinx = Undef /\ sum_sinxcosx = Undef
    /\ sindx = Undef /\ cosdx = Undef /\ sinx = Undef /\ cosx = Undef
    /\ spectrum = Undef /\ amplitude_cos = Undef
    /\ amplitude_sin = Undef /\ constant = Undef
    /\ rot = 0
    /\ prev = Undef

SeqsOf(S, lens) == UNION {[1..m -> S] : m \in lens}

\* Strictly increasing time arrays.
Increasing(ts) == \A i \in 1..(Len(ts) - 1) : ts[i] < ts[i + 1]

TimeVals == 0..2
SignalVals == {Num(0), Num(1)}
WeightVals == {<<1, 4>>, <<1, 2>>, <<3, 4>>}
FreqStartVals == {-1, 2}
FreqStepVals == {-1, 0, 1, 2}

\* Weights for m samples: one short, aligned, or one too many.
WeightSeqs(m) ==
    SeqsOf(WeightVals, {k \in {m - 1, m} : k >= 0})
        \cup {Append(ws, <<1, 4>>) : ws \in SeqsOf(WeightVals, {m})}

Near(m, hi) == {k \in {m - 1, m, m + 1} : k >= 0 /\ k <= hi}

Init ==
    /\ time \in {ts \in SeqsOf(TimeVals, 0..MaxLen) : Increasing(ts)}
    /\ signal \in SeqsOf(SignalVals, Near(Len(time), MaxLen))
    /\ weights \in WeightSeqs(Len(time))
    /\ freq_start \in FreqStartVals
    /\ freq_step \in FreqStepVals
    /\ num_freq \in 0..MaxFreq
    /\ with_constant \in BOOLEAN
    /\ Fresh

Next ==
    \/ AssertFail
    \/ AssertPass
    \/ Center
    \/ SampleBegin
    \/ IndexPanic
    \/ BinStep
    \/ Solve

Spec == Init /\ [][Next]_vars

\* Calls that keep the caller's contract: aligned arrays, weights that sum
\* to 1, positive frequencies.
RECURSIVE SumSeq(_, _)
SumSeq(xs, k) == IF k = 0 THEN Zero ELSE FAdd(SumSeq(xs, k - 1), xs[k])

FitTimeVals == 0..(FitLen - 1)
FitSignalVals == {Num(-1), Num(0), Num(1)}
FitWeightVals == {<<1, k>> : k \in 1..FitLen} \cup {<<3, 4>>}

InitFit ==
    /\ time \in {ts \in SeqsOf(FitTimeVals, 1..FitLen) : Increasing(ts)}
    /\ weights \in {ws \in SeqsOf(FitWeightVals, {Len(time)}) : SumSeq(ws, Len(ws)) = One}
    /\ signal \in SeqsOf(FitSignalVals, {Len(time)})
    /\ freq_start \in {1, 2}
    /\ freq_step \in {1, 2}
    /\ num_freq \in {1, 2}
    /\ with_constant \in BOOLEAN
    /\ Fresh

NextFit ==
    \/ AssertPass
    \/ Center
    \/ SampleBegin
    \/ BinStep
    \/ Solve

SpecFit == InitFit /\ [][NextFit]_vars

\* Two calls that differ in num_freq alone.
InitPair ==
    /\ Init
    /\ AssertsHold
    /\ Len(weights) = Len(time)

NextPair ==
    \/ AssertPass
    \/ Center
    \/ SampleBegin
    \/ BinStep
    \/ Solve
    \/ Recall

SpecPair == InitPair /\ [][NextPair]_vars

\* One call over more bins than the resynchronization period.
LongFreq == ResyncPeriod + LongExtra

InitLong ==
    /\ time \in {<<1>>, <<1, 3>>}
    /\ signal = [i \in 1..Len(time) |-> Num(i)]
    /\ weights = [i \in 1..Len(time) |-> <<1, 2>>]
    /\ freq_start = 1
    /\ freq_step = 1
    /\ num_freq = LongFreq
    /\ with_constant = FALSE
    /\ Fresh

NextLong ==
    \/ AssertPass
    \/ Center
    \/ SampleBegin
    \/ BinStep
    \/ Solve

SpecLong == InitLong /\ [][NextLong]_vars

\* ------------------------------------------------------------ claims
AllUndef == outs = <<Undef, Undef, Undef, Undef>>

\* What the claims call an invalid input.
InvalidInput ==
    \/ Len(time) = 0
    \/ Len(signal) # Len(time)
    \/ freq_step <= 0
    \/ num_freq = 0

\* C1: an input with an empty time, a signal of another length than time, a
\* freq_step <= 0 or a num_freq of 0 never gets past the assertions: the call
\* panics there, whatever the other arguments are, and returns nothing.
C1_InvalidInputPanics ==
    InvalidInput =>
        /\ pc \in {"start", "panic"}
        /\ pc = "start" => ENABLED AssertFail /\ ~ENABLED AssertPass
        /\ AllUndef

\* A panic on a negative freq_step, all else being valid.
C1_Witness ==
    /\ pc = "panic"
    /\ freq_step < 0
    /\ Len(time) > 0 /\ Len(signal) = Len(time) /\ num_freq >= 1
    /\ Len(weights) = Len(time)

\* C2: a call that fails fails in validation, before the weighted mean is
\* computed and before the first accumulation step; nothing fails once the
\* accumulation has begun.
C2_FailsOnlyInValidation ==
    pc = "panic" => mean = Undef /\ sum_y = Undef /\ n = 0

\* C3: every input that passes the four assertions makes the call return
\* four vectors of length num_freq, whatever with_constant and freq_start are.
C3_ValidInputReturnsAligned ==
    AssertsHold =>
        /\ pc # "panic"
        /\ pc = "done" =>
              /\ Len(spectrum) = num_freq
              /\ Len(amplitude_cos) = num_freq
              /\ Len(amplitude_sin) = num_freq
              /\ Len(constant) = num_freq

\* The weighted mean of the original signal, sum over the samples of
\* signal[n]*weights[n].
RECURSIVE SumProducts(_)
SumProducts(k) ==
    IF k = 0 THEN Zero ELSE FAdd(SumProducts(k - 1), FMul(signal[k], weights[k]))

SignalMean == SumProducts(Len(time))

\* C4: without a fitted constant, every constant[j] of a returned result is
\* the weighted mean of the original signal, the same for every bin, whatever
\* the bin's sums and determinant are.
C4_ConstantIsWeightedMean ==
    (pc = "done" /\ ~with_constant) =>
        \A k \in 1..num_freq : constant[k] = SignalMean

\* A result of two bins or more, one of them singular, with a mean that is
\* neither zero nor the constant the other branch would have fitted.
C4_Witness ==
    /\ pc = "done" /\ ~with_constant
    /\ num_freq >= 2
    /\ constant[1] # Zero
    /\ \E k \in 1..num_freq : IsZero(D(k - 1))
    /\ \E k \in 1..num_freq : ~IsZero(D(k - 1)) /\ ~IsZero(YS(k - 1))

RECURSIVE SumWeights(_)
SumWeights(k) == IF k = 0 THEN Zero ELSE FAdd(SumWeights(k - 1), weights[k])

WeightsNormalized == Len(weights) = Len(time) /\ SumWeights(Len(weights)) = One

BinAngle == time[n + 1] * (omega_start + j * omega_step)

\* C8: whenever bin j's sums are about to be updated for sample n, sinx and
\* cosx are the sine and cosine of t_n*(omega_start + j*omega_step), whether
\* they were set at the head of the sample, recomputed or rotated.
C8_RecurrenceInvariant ==
    pc = "loop_j" => j < num_freq /\ sinx = Sin(BinAngle) /\ cosx = Cos(BinAngle)

\* A state reached by a rotation, on a later sample, at a non-trivial angle.
C8_Witness ==
    /\ pc = "loop_j" /\ n >= 1 /\ j >= 2 /\ rot >= 1
    /\ BinAngle % 4 = 3

\* The noise-free sinusoid a*sin(w*t) + b*cos(w*t) sampled at the times of
\* the call, w being the angular frequency of bin 0.
SineSignal(a, b) ==
    [i \in 1..Len(time) |->
        FAdd(FMul(Num(a), Sin(omega_start * time[i])),
             FMul(Num(b), Cos(omega_start * time[i])))]

AmpVals == -1..1

\* C7: without a fitted constant, a signal a*sin(w*t) + b*cos(w*t) of weighted
\* mean zero, under weights that sum to 1, is recovered at the bin of angular
\* frequency w whenever yy > 0 and d # 0 there: amp_sin = a, amp_cos = b and
\* spectrum = 1.
C7_SinusoidRecovered ==
    (pc = "done" /\ ~with_constant /\ WeightsNormalized) =>
        \A a \in AmpVals, b \in AmpVals :
            ( /\ signal = SineSignal(a, b)
              /\ SignalMean = Zero
              /\ Pos(YY)
              /\ ~IsZero(D(0)) ) =>
                /\ amplitude_sin[1] = Num(a)
                /\ amplitude_cos[1] = Num(b)
                /\ spectrum[1] = One

\* The example of the claim: time 0..3, signal sin(2*pi*0.25*t), four weights
\* of 1/4, freq_start 0.25, one bin.
C7_Witness ==
    /\ pc = "done" /\ ~with_constant
    /\ time = <<0, 1, 2, 3>>
    /\ signal = <<Num(0), Num(1), Num(0), Num(-1)>>
    /\ signal = SineSignal(1, 0)
    /\ weights = <<<<1, 4>>, <<1, 4>>, <<1, 4>>, <<1, 4>>>>
    /\ freq_start = 1
    /\ num_freq = 1
    /\ Pos(YY) /\ ~IsZero(D(0))
    /\ amplitude_sin = <<One>> /\ amplitude_cos = <<Zero>> /\ spectrum = <<One>>

\* C9: the advance from bin j to bin j + 1 is the direct recompute of the
\* angle t_n*(omega_start + (j+1)*omega_step) exactly when j mod 5000 = 0, and
\* the rotation otherwise (rot counts the rotations since the last direct
\* evaluation); so no state is more than 4999 rotations old.
C9_ResyncCadence ==
    /\ [](pc = "loop_j" => rot <= 4999)
    /\ [][pc = "loop_j" =>
            IF j % 5000 = 0
            THEN /\ rot' = 0
                 /\ sinx' = Sin(time[n + 1] * (omega_start + (j + 1) * omega_step))
                 /\ cosx' = Cos(time[n + 1] * (omega_start + (j + 1) * omega_step))
            ELSE /\ rot' = rot + 1
                 /\ cosx' = FSub(FMul(cosx, cosdx), FMul(sinx, sindx))
                 /\ sinx' = FAdd(FMul(sinx, cosdx), FMul(cosx, sindx))]_vars

\* Bin 2 of a run of two samples over more than 5000 bins, reached by the
\* recompute that follows bin 0 and the rotation that follows bin 1.
C9_Witness ==
    /\ pc = "loop_j"
    /\ num_freq > 5000
    /\ Len(time) = 2
    /\ j = 2
    /\ rot = 1

\* The four outputs of bin k (from 1) in a result.
BinOf(res, k) == <<res[1][k], res[2][k], res[3][k], res[4][k]>>

\* Every entry of an accumulator but that of bin jj is the same in the next state.
OnlyBin(jj) ==
    \A k \in 1..num_freq :
        k # jj + 1 =>
            /\ sum_ysinx'[k] = sum_ysinx[k]
            /\ sum_ycosx'[k] = sum_ycosx[k]
            /\ sum_sinx'[k] = sum_sinx[k]
            /\ sum_cosx'[k] = sum_cosx[k]
            /\ sum_sinxsinx'[k] = sum_sinxsinx[k]
            /\ sum_sinxcosx'[k] = sum_sinxcosx[k]

\* C10: a pass of the bin loop writes the six sums of its own bin only, and
\* two calls that differ in num_freq alone return the same four values at
\* every bin both have.
C10_BinIndependence ==
    /\ [][pc = "loop_j" => OnlyBin(j)]_vars
    /\ []((pc = "done" /\ prev # Undef) =>
            \A k \in 1..Min(num_freq, Len(prev[1])) : BinOf(outs, k) = BinOf(prev, k))

\* A second call over more bins than the first, whose common bins are finite
\* and not alike.
C10_Witness ==
    /\ pc = "done" /\ prev # Undef
    /\ Len(prev[1]) >= 2
    /\ num_freq > Len(prev[1])
    /\ IsFinite(spectrum[1]) /\ IsFinite(spectrum[2])
    /\ BinOf(outs, 1) # BinOf(outs, 2)

=============================================================================
